---- MODULE Spec2Model ----
(***************************************************************************)
(* A model of src/MLP/deploy_multilayerperceptron.py: the batch generator, *)
(* Layer, MultilayerPerceptron.forward/backward and the epoch/batch loop   *)
(* of MultilayerPerceptron.train.                                          *)
(*                                                                         *)
(* Numbers.  numpy's float64 arrays are modelled in fixed point with unit  *)
(* 1: every array element is an integer, a true division x / k is the      *)
(* floor quotient x \div k, and a stored weight or bias saturates at       *)
(* +-MaxAbs (the analogue of the finite range of a float).  The one        *)
(* quotient a claim is about, total_loss / (len(train_x) / batch_size), is *)
(* kept exact, as a fraction.  The activation functions that need exp,     *)
(* log or tanh (Sigmoid, Tanh, Softmax, Softplus, Mish) and the two        *)
(* cross-entropy losses are not modelled: the networks of the model use    *)
(* Relu and Linear layers and the SquaredError loss.                       *)
(*                                                                         *)
(* Arrays.  A 2-D array is a record [r, c, a]: r rows, c columns, a the    *)
(* sequence of its rows.  A 1-D array is a sequence.  None is the record   *)
(* with r = -1.                                                            *)
(*                                                                         *)
(* Evaluation.  Only({f(v) : v \in {e}}) is f(e) with e evaluated once, and *)
(* Tup(s) is the sequence s with its elements evaluated: they keep TLC     *)
(* from evaluating an intermediate array again at each use.                *)
(***************************************************************************)
EXTENDS Integers, Sequences, FiniteSets, TLC

\* ---------------------------------------------------------------- bounds
MaxN == 3
MaxBatch == 2
MaxEpochs == 2
MaxLayers == 2
MaxAbs == 2

\* ---------------------------------------------------------------- arrays
None == [r |-> -1, c |-> -1, a |-> <<>>]

IsNone(M) == M.r = -1

Only(S) == CHOOSE v \in S : TRUE

Tup(s) == s \o <<>>

Mat(rows, cols, f(_, _)) ==
    [r |-> rows, c |-> cols,
     a |-> Tup([i \in 1..rows |-> Tup([j \in 1..cols |-> f(i, j)])])]

Zeros(rows, cols) ==
    LET z(i, j) == 0 IN Mat(rows, cols, z)

OnesLike(M) ==
    LET o(i, j) == 1 IN Mat(M.r, M.c, o)

RECURSIVE SumSeq(_)
SumSeq(s) == IF s = <<>> THEN 0 ELSE Head(s) + SumSeq(Tail(s))

SumAll(M) == SumSeq([i \in 1..M.r |-> SumSeq(M.a[i])])

Aligned(A, B) == A.c = B.r

Dot(A, B) ==
    LET e(i, j) == SumSeq([k \in 1..A.c |-> A.a[i][k] * B.a[k][j]])
    IN  Mat(A.r, B.c, e)

Transpose(A) ==
    LET e(i, j) == A.a[j][i] IN Mat(A.c, A.r, e)

AddBias(A, b) ==
    LET e(i, j) == A.a[i][j] + b[j] IN Mat(A.r, A.c, e)

Hadamard(A, B) ==
    LET e(i, j) == A.a[i][j] * B.a[i][j] IN Mat(A.r, A.c, e)

Minus(A, B) ==
    LET e(i, j) == A.a[i][j] - B.a[i][j] IN Mat(A.r, A.c, e)

DivBy(A, k) ==
    LET e(i, j) == A.a[i][j] \div k IN Mat(A.r, A.c, e)

ColSum(A) ==
    LET e(i, j) == SumSeq([k \in 1..A.r |-> A.a[k][j]]) IN Mat(1, A.c, e)

Squeeze(A) == A.a[1]

TakeRows(A, idx) ==
    LET e(i, j) == A.a[idx[i] + 1][j] IN Mat(Len(idx), A.c, e)

FirstRows(A, k) ==
    LET m == IF k < A.r THEN k ELSE A.r
        e(i, j) == A.a[i][j]
    IN  Mat(m, A.c, e)

Slice(s, lo, hi) ==
    LET h == IF hi < Len(s) THEN hi ELSE Len(s)
    IN  Tup([k \in 1..(IF h > lo THEN h - lo ELSE 0) |-> s[lo + k]])

\* Reverse without the reversal.
ReverseNot(s) == s

Reverse(s) == Tup([k \in 1..Len(s) |-> s[Len(s) + 1 - k]])

Abs(x) == IF x < 0 THEN -x ELSE x

Sat(x) == IF x > MaxAbs THEN MaxAbs ELSE IF x < -MaxAbs THEN -MaxAbs ELSE x

Isqrt[x \in Int] ==
    IF x < 1 THEN 0
    ELSE Only({IF (s + 1) * (s + 1) <= x THEN s + 1 ELSE s : s \in {2 * Isqrt[x \div 4]}})

\* ------------------------------------------------------------- fractions
\* An exact quotient num / den (den # 0), kept with den > 0 in lowest terms.
Gcd[x \in Nat, y \in Nat] == IF y = 0 THEN x ELSE Gcd[y, x % y]

Frac(num, den) ==
    Only({[num |-> (IF d < 0 THEN -u ELSE u) \div Gcd[Abs(u), Abs(d)],
           den |-> Abs(d) \div Gcd[Abs(u), Abs(d)]] : u \in {num}, d \in {den}})

FracAdd(p, q) ==
    Only({Frac(u.num * v.den + v.num * u.den, u.den * v.den) : u \in {p}, v \in {q}})

FracDiv(p, q) ==
    Only({Frac(u.num * v.den, u.den * v.num) : u \in {p}, v \in {q}})

FracLess(p, q) == p.num * q.den < q.num * p.den

\* ------------------------------------------------- activation functions
\* Relu.forward, Linear.forward
ActForward(fn, Z) ==
    LET relu(i, j) == IF Z.a[i][j] > 0 THEN Z.a[i][j] ELSE 0
    IN  IF fn = "Relu" THEN Mat(Z.r, Z.c, relu) ELSE Z

\* Relu.derivative, Linear.derivative
ActDerivative(fn, X) ==
    LET step(i, j) == IF X.a[i][j] > 0 THEN 1 ELSE 0
    IN  IF fn = "Relu" THEN Mat(X.r, X.c, step) ELSE OnesLike(X)

\* ------------------------------------------------------- loss functions
\* SquaredError.loss: the array 1/2 * (y_pred - y_true)^2, each element an
\* exact fraction.
SquaredErrorLoss(y_true, y_pred) ==
    Only({Tup([i \in 1..d.r |-> Tup([j \in 1..d.c |-> Frac(d.a[i][j] * d.a[i][j], 2)])]) :
          d \in {Minus(y_pred, y_true)}})

\* SquaredError.derivative
SquaredErrorDerivative(y_true, y_pred) == DivBy(Minus(y_pred, y_true), y_pred.r)

RECURSIVE FracSum(_)
FracSum(s) == IF s = <<>> THEN Frac(0, 1) ELSE FracAdd(Head(s), FracSum(Tail(s)))

\* np.mean of a 2-D array of fractions
MeanLoss(L) ==
    Only({FracDiv(FracSum(Tup([i \in 1..Len(v) |-> FracSum(v[i])])),
                  Frac(Len(v) * Len(v[1]), 1)) : v \in {L}})

\* ---------------------------------------------------------------- Layer
\* The outcome of Layer.__init__: which exception it raises, "" for none.
\* np.random.uniform raises ValueError for a negative dimension, and
\* 6.0 / (fan_in + fan_out) raises ZeroDivisionError for a zero sum.
LayerInitRaises(fan_in, fan_out) ==
    IF fan_in < 0 \/ fan_out < 0 THEN "ValueError"
    ELSE IF fan_in + fan_out = 0 THEN "ZeroDivisionError"
    ELSE ""

\* sqrt(6.0 / (fan_in + fan_out)) in fixed point
GlorotScale(fan_in, fan_out) == Isqrt[6 \div (fan_in + fan_out)]

\* The layer Layer.__init__ builds; u is the draw of np.random.uniform.
NewLayer(fan_in, fan_out, activation_function, dropout_rate, u) ==
    [fan_in |-> fan_in, fan_out |-> fan_out,
     activation_function |-> activation_function,
     dropout_rate |-> dropout_rate,
     activations |-> None, delta |-> None, dropout_mask |-> None,
     W |-> LET w(i, j) == u.a[i][j] * GlorotScale(fan_in, fan_out)
           IN  Mat(fan_in, fan_out, w),
     b |-> Tup([j \in 1..fan_out |-> 0]),
     m_W |-> None, m_b |-> <<>>]

\* The draws of np.random.uniform(-1, 1, (fan_in, fan_out)) the model takes.
UniformDraws(fan_in, fan_out) ==
    {[r |-> fan_in, c |-> fan_out, a |-> Tup([i \in 1..fan_in |-> Tup(f[i])])] :
        f \in [1..fan_in -> [1..fan_out -> {-1, 1}]]}

\* The draws of np.random.rand(rows, cols) > dropout_rate: one per element.
KeepDraws(rows, cols) ==
    {[r |-> rows, c |-> cols, a |-> Tup([i \in 1..rows |-> Tup(f[i])])] :
        f \in [1..rows -> [1..cols -> {0, 1}]]}

\* DrawsMask without the test of dropout_rate.
DrawsMaskAnyRate(layer, training) == training

\* Whether Layer.forward draws a mask.
DrawsMask(layer, training) == training /\ layer.dropout_rate > 0

\* The dropout mask Layer.forward stores for the activations act: the draw
\* keep scaled by 1 / (1 - dropout_rate), or ones.  Rates are in percent.
LayerMask(layer, act, training, keep) ==
    LET m(i, j) == (keep.a[i][j] * 100) \div (100 - layer.dropout_rate)
    IN  IF DrawsMask(layer, training) THEN Mat(act.r, act.c, m) ELSE OnesLike(act)

\* Layer.forward(h, training) with the draw keep.
LayerForward(layer, h, training, keep) ==
    Only({[layer EXCEPT !.dropout_mask = LayerMask(layer, act, training, keep),
                        !.activations = IF DrawsMask(layer, training)
                                        THEN Hadamard(act, LayerMask(layer, act, training, keep))
                                        ELSE act] :
          act \in {ActForward(layer.activation_function,
                              AddBias(Dot(h, layer.W), layer.b))}})

\* LayerBackward with W stepped by its gradient in the same call.
LayerBackwardUpdating(layer, h, delta) ==
    Only({[dZ |-> dZ,
           dL_dW |-> DivBy(Dot(Transpose(h), dZ), h.r),
           dL_db |-> DivBy(ColSum(dZ), h.r),
           layer |-> [layer EXCEPT !.delta = Dot(dZ, Transpose(layer.W)),
                                   !.W = Minus(layer.W, DivBy(Dot(Transpose(h), dZ), h.r))]] :
          dZ \in {IF layer.dropout_rate > 0 /\ ~IsNone(layer.dropout_mask)
                  THEN Hadamard(dZ0, layer.dropout_mask) ELSE dZ0 :
                  dZ0 \in {Hadamard(delta, ActDerivative(layer.activation_function,
                                                         layer.activations))}}})

\* Layer.backward(h, delta): the layer with its delta stored, and the two
\* gradients.
LayerBackward(layer, h, delta) ==
    Only({[dZ |-> dZ,
           dL_dW |-> DivBy(Dot(Transpose(h), dZ), h.r),
           dL_db |-> DivBy(ColSum(dZ), h.r),
           layer |-> [layer EXCEPT !.delta = Dot(dZ, Transpose(layer.W))]] :
          dZ \in {IF layer.dropout_rate > 0 /\ ~IsNone(layer.dropout_mask)
                  THEN Hadamard(dZ0, layer.dropout_mask) ELSE dZ0 :
                  dZ0 \in {Hadamard(delta, ActDerivative(layer.activation_function,
                                                         layer.activations))}}})

\* -------------------------------------------------- MultilayerPerceptron
RECURSIVE SeqProduct(_)
SeqProduct(sets) ==
    IF sets = <<>> THEN {<<>>}
    ELSE {<<h>> \o t : h \in Head(sets), t \in SeqProduct(Tail(sets))}

\* The random draws one MultilayerPerceptron.forward over `rows` rows can
\* make: a keep array for each layer that draws a mask, nothing otherwise.
ForwardDraws(ls, rows, training) ==
    SeqProduct([k \in 1..Len(ls) |->
        IF DrawsMask(ls[k], training)
        THEN KeepDraws(rows, ls[k].fan_out)
        ELSE {Zeros(0, 0)}])

\* MultilayerPerceptron.forward from layer k on.  np.dot raises ValueError
\* when the input's columns are not the rows of W: ok is then FALSE.
RECURSIVE ForwardFrom(_, _, _, _, _)
ForwardFrom(ls, k, x, training, keeps) ==
    IF k > Len(ls) THEN [ok |-> TRUE, layers |-> ls, out |-> x]
    ELSE IF ~Aligned(x, ls[k].W) THEN [ok |-> FALSE, layers |-> ls, out |-> x]
    ELSE Only({ForwardFrom([ls EXCEPT ![k] = l2], k + 1, l2.activations, training, keeps) :
               l2 \in {LayerForward(ls[k], x, training, keeps[k])}})

\* MultilayerPerceptron.forward(x, training)
Forward(ls, x, training, keeps) == ForwardFrom(ls, 1, x, training, keeps)

\* ------------------------------------------------------ metric helpers
\* compute_accuracy for single-column targets; model.forward's training
\* argument is left at its default.
ForwardDefaultTraining == TRUE

Accuracy(y_pred, y) ==
    LET hit(i) == IF (IF 2 * y_pred.a[i][1] > 1 THEN 1 ELSE 0) = y.a[i][1] THEN 1 ELSE 0
    IN  Frac(100 * SumSeq(Tup([i \in 1..y.r |-> hit(i)])), y.r)

\* r2_score from the residual sum ssr, the sums sy and syy of the targets
\* and of their squares, and the element count cnt
R2Score(ssr, sy, syy, cnt) ==
    IF cnt * syy - sy * sy # 0
    THEN FracAdd(Frac(1, 1), FracDiv(Frac(-ssr, 1), Frac(cnt * syy - sy * sy, cnt)))
    ELSE Frac(0, 1)

\* compute_regression_metrics: <<mse, mae, r2_score>>
RegressionMetrics(y_pred, y) ==
    Only({<<Frac(SumAll(Hadamard(d, d)), d.r * d.c),
            Frac(SumSeq(Tup([i \in 1..d.r |-> SumSeq(Tup([j \in 1..d.c |-> Abs(d.a[i][j])]))])),
                 d.r * d.c),
            R2Score(SumAll(Hadamard(d, d)), SumAll(y), SumAll(Hadamard(y, y)), d.r * d.c)>> :
          d \in {Minus(y, y_pred)}})

\* ---------------------------------------------------------- parameters
\* self.beta = 0.9, in tenths
BetaTenths == 9

\* layer.m = beta * layer.m + (1 - beta) * g ** 2, the moment m held in
\* hundredths
RmsMoment(m, g) == (BetaTenths * m + (10 - BetaTenths) * 100 * g * g) \div 10

\* learning_rate * g / (np.sqrt(m) + self.epsilon) for the moment m in
\* hundredths; epsilon = 1e-8 is below the resolution, and decides only the
\* quotient 0 / (0 + epsilon) = 0
RmsStep(learning_rate, g, m) ==
    IF g = 0 THEN 0 ELSE (10 * learning_rate * g) \div Isqrt[m]

\* The body of train's update loop for one layer.
UpdateLayer(layer, dW, db, learning_rate, RMSProp) ==
    IF RMSProp
    THEN LET mW(i, j) == RmsMoment(layer.m_W.a[i][j], dW.a[i][j])
             mb(j) == RmsMoment(layer.m_b[j], db[j])
             w(i, j) == Sat(layer.W.a[i][j] - RmsStep(learning_rate, dW.a[i][j], mW(i, j)))
         IN  [layer EXCEPT !.m_W = Mat(layer.W.r, layer.W.c, mW),
                           !.m_b = Tup([j \in 1..Len(layer.b) |-> mb(j)]),
                           !.W = Mat(layer.W.r, layer.W.c, w),
                           !.b = Tup([j \in 1..Len(layer.b) |->
                                        Sat(layer.b[j] - RmsStep(learning_rate, db[j], mb(j)))])]
    ELSE LET w(i, j) == Sat(layer.W.a[i][j] - learning_rate * dW.a[i][j])
         IN  [layer EXCEPT !.W = Mat(layer.W.r, layer.W.c, w),
                           !.b = Tup([j \in 1..Len(layer.b) |->
                                        Sat(layer.b[j] - learning_rate * db[j])])]

\* ------------------------------------------------------- batch_generator
\* The outcomes of np.random.shuffle on np.arange(n).
Shuffles(n) ==
    {p \in [1..n -> 0..(n - 1)] : \A i, j \in 1..n : i # j => p[i] # p[j]}

\* range(0, n, batch_size) raises ValueError for a zero step.
RangeRaises(batch_size) == batch_size = 0

\* RangeHas without the offset of a short final batch.
RangeHasFullOnly(len_x, step, i) == step > 0 /\ i + step <= len_x

\* Whether range(0, n, batch_size) has a value at offset i.
RangeHas(len_x, step, i) == step > 0 /\ i < len_x

\* BatchIdx with a slice one index too long.
BatchIdxOverlap(idx, i, size) == Slice(idx, i, i + size + 1)

\* indices[i:i+batch_size]
BatchIdx(idx, i, size) == Slice(idx, i, i + size)

\* batch_x = train_x[batch_indices]
BatchX(X, batch_indices) == TakeRows(X, batch_indices)

\* BatchY with one row more than batch_indices.
BatchYExtraRow(Y, batch_indices) == TakeRows(Y, Append(batch_indices, batch_indices[1]))

\* batch_y = train_y[batch_indices]
BatchY(Y, batch_indices) == TakeRows(Y, batch_indices)

\* NumBatches rounded up.
NumBatchesCeil(len_train_x, size) == Frac((len_train_x + size - 1) \div size, 1)

\* num_batches = len(train_x) / batch_size, a true division
NumBatches(len_train_x, size) == Frac(len_train_x, size)

\* ListAppend that keeps the new entry only.
ListAppendOverwrite(list, v) == <<v>>

\* training_losses.append(v), validation_losses.append(v)
ListAppend(list, v) == Append(list, v)

\* -------------------------------------------------------------- inputs
\* The training set of n rows and the validation set the callers pass.
TrainX(n) == LET x(i, j) == i - 1 IN Mat(n, 1, x)

TrainY(n) == LET y(i, j) == 1 - i IN Mat(n, 1, y)

ValX == [r |-> 2, c |-> 1, a |-> <<<<1>>, <<2>>>>]

ValY == [r |-> 2, c |-> 1, a |-> <<<<-1>>, <<0>>>>]

LayerArgs(fan_in, fan_out, act, rate) ==
    [fan_in |-> fan_in, fan_out |-> fan_out,
     activation_function |-> act, dropout_rate |-> rate]

\* A network of num layers of width 1: Relu layers and a Linear output
\* layer, dropout (in percent) on the first layer.
NetArgs(num, rate) ==
    [k \in 1..num |-> LayerArgs(1, 1, IF k = num THEN "Linear" ELSE "Relu",
                                IF k = 1 THEN rate ELSE 0)]

TrainArgs(n, batch_size, epochs, model_type, RMSProp) ==
    [n |-> n, batch_size |-> batch_size, epochs |-> epochs, learning_rate |-> 1,
     model_type |-> model_type, RMSProp |-> RMSProp]

\* On the one-layer network: every dataset length and batch size within
\* the bounds for one epoch, and every epoch count in batches of two rows
\* or more.
ShapeCalls ==
    {[net |-> NetArgs(1, 0), train |-> TrainArgs(n, bs, 1, "classification", FALSE)] :
        n \in 1..MaxN, bs \in 1..MaxBatch}
    \cup
    {[net |-> NetArgs(1, 0), train |-> TrainArgs(n, bs, ep, "classification", FALSE)] :
        n \in 1..MaxN, bs \in 2..MaxBatch, ep \in 2..MaxEpochs}

\* Every network depth within the bound, with and without dropout, under
\* both update rules and both model types, on two rows in one batch.
NetworkCalls ==
    {[net |-> NetArgs(num, rate), train |-> TrainArgs(2, 2, 2, mt, rms)] :
        num \in 1..MaxLayers, rate \in {0, 50},
        mt \in {"classification", "regression"}, rms \in BOOLEAN}

ValidCalls == ShapeCalls \cup NetworkCalls

\* Calls with arguments outside their documented ranges (among others).
EdgeCalls ==
    {[net |-> NetArgs(1, 0), train |-> TrainArgs(MaxN, bs, ep, "regression", FALSE)] :
        bs \in -1..1, ep \in -1..1}
    \cup
    {[net |-> <<LayerArgs(sh[1], sh[2], "Linear", rate)>>,
      train |-> TrainArgs(MaxN, MaxBatch, 1, "classification", FALSE)] :
        sh \in {<<-1, 1>>, <<1, -1>>, <<0, 0>>, <<0, 1>>, <<1, 1>>}, rate \in {-50, 0}}

ValidLayerArgs(la) ==
    la.fan_in > 0 /\ la.fan_out > 0 /\ la.dropout_rate >= 0 /\ la.dropout_rate < 100

ValidTrainArgs(ta) == ta.batch_size > 0 /\ ta.epochs > 0

ValidCall(c) ==
    ValidTrainArgs(c.train) /\ \A k \in 1..Len(c.net) : ValidLayerArgs(c.net[k])

Calls == ValidCalls \cup EdgeCalls

\* ---------------------------------------------------------------- state
VARIABLES
    call,               \* what the caller constructs and passes to train
    pc,                 \* the position in the caller's script and in train
    exc,                \* the exception that ended the run, "" for none
    layers,             \* self.layers: the Layer objects, in network order
    training_losses, validation_losses,
    epoch,              \* the epoch loop's variable
    total_loss,
    indices, gi,        \* batch_generator: the shuffled indices, the offset i
    batch_x, batch_y, y_pred,
    dL_dA, bi,          \* MultilayerPerceptron.backward: the error, the loop's i
    dl_dw_all, dl_db_all,
    dL_dW, dL_db,       \* the lists backward returned to train
    ui,                 \* the update loop's i
    stdout,             \* the progress line just printed
    yielded,            \* history: the batches the running generator yielded
    batch_steps,        \* history: batch steps completed since train began
    epoch_steps,        \* history: batch steps completed in this epoch
    backward_calls,     \* history: the Layer.backward calls of this pass
    W_at_forward,       \* history: each layer's W at this batch's forward pass
    updates             \* history: updates of each layer in this batch step

locals == <<batch_x, batch_y, y_pred, dL_dA, bi, dl_dw_all, dl_db_all, dL_dW, dL_db, ui>>

losses == <<training_losses, validation_losses>>

history == <<yielded, batch_steps, epoch_steps, backward_calls, W_at_forward, updates>>

vars == <<call, pc, exc, layers, losses, epoch, total_loss, indices, gi, locals,
          stdout, history>>

n == call.train.n

batch_size == call.train.batch_size

epochs == call.train.epochs

train_x == TrainX(n)

train_y == TrainY(n)

NoLocals ==
    /\ batch_x = None /\ batch_y = None /\ y_pred = None /\ dL_dA = None
    /\ bi = 0 /\ dl_dw_all = <<>> /\ dl_db_all = <<>>
    /\ dL_dW = <<>> /\ dL_db = <<>> /\ ui = 0

ClearLocals ==
    /\ batch_x' = None /\ batch_y' = None /\ y_pred' = None /\ dL_dA' = None
    /\ bi' = 0 /\ dl_dw_all' = <<>> /\ dl_db_all' = <<>>
    /\ dL_dW' = <<>> /\ dL_db' = <<>> /\ ui' = 0

Init ==
    /\ call \in Calls
    /\ pc = "construct" /\ exc = "" /\ layers = <<>>
    /\ training_losses = <<>> /\ validation_losses = <<>>
    /\ epoch = 0 /\ total_loss = Frac(0, 1)
    /\ indices = <<>> /\ gi = 0
    /\ NoLocals
    /\ stdout = <<>>
    /\ yielded = <<>> /\ batch_steps = 0 /\ epoch_steps = 0
    /\ backward_calls = <<>> /\ W_at_forward = <<>> /\ updates = <<>>

Raise(e) == pc' = "error" /\ exc' = e

\* The caller constructs the next Layer: Layer.__init__.
ConstructLayer ==
    /\ pc = "construct" /\ Len(layers) < Len(call.net)
    /\ LET la == call.net[Len(layers) + 1]
           e  == LayerInitRaises(la.fan_in, la.fan_out)
       IN  IF e # ""
           THEN Raise(e) /\ UNCHANGED layers
           ELSE /\ \E u \in UniformDraws(la.fan_in, la.fan_out) :
                     layers' = Append(layers,
                         NewLayer(la.fan_in, la.fan_out, la.activation_function,
                                  la.dropout_rate, u))
                /\ UNCHANGED <<pc, exc>>
    /\ UNCHANGED <<call, losses, epoch, total_loss, indices, gi, locals, stdout, history>>

\* MultilayerPerceptron.__init__
ConstructNetwork ==
    /\ pc = "construct" /\ Len(layers) = Len(call.net)
    /\ pc' = "idle"
    /\ UNCHANGED <<call, exc, layers, losses, epoch, total_loss, indices, gi, locals,
                   stdout, history>>

\* train, up to the epoch loop: the RMSProp moments and the two lists.
TrainBegin ==
    /\ pc = "idle"
    /\ layers' = IF call.train.RMSProp
                 THEN Tup([k \in 1..Len(layers) |->
                          [layers[k] EXCEPT !.m_W = Zeros(layers[k].W.r, layers[k].W.c),
                                            !.m_b = Tup([j \in 1..Len(layers[k].b) |-> 0])]])
                 ELSE layers
    /\ training_losses' = <<>> /\ validation_losses' = <<>>
    /\ epoch' = 0
    /\ pc' = "epoch"
    /\ UNCHANGED <<call, exc, total_loss, indices, gi, locals, stdout, history>>

\* for epoch in range(epochs): the next epoch begins with total_loss = 0 and
\* a new generator.
EpochBegin ==
    /\ pc = "epoch" /\ epoch < epochs
    /\ total_loss' = Frac(0, 1)
    /\ pc' = "gen_start"
    /\ stdout' = <<>>
    /\ epoch_steps' = 0
    /\ UNCHANGED <<call, exc, layers, losses, epoch, indices, gi, locals,
                   yielded, batch_steps, backward_calls, W_at_forward, updates>>

\* The epoch loop is over: train returns the two lists.
TrainReturn ==
    /\ pc = "epoch" /\ epoch >= epochs
    /\ pc' = "done"
    /\ stdout' = <<>>
    /\ UNCHANGED <<call, exc, layers, losses, epoch, total_loss, indices, gi, locals,
                   history>>

\* batch_generator, from its first line to the for statement.
GeneratorStart ==
    /\ pc = "gen_start"
    /\ \E p \in Shuffles(n) : indices' = Tup(p)
    /\ gi' = 0
    /\ yielded' = <<>>
    /\ IF RangeRaises(batch_size) THEN Raise("ValueError")
       ELSE pc' = "gen_next" /\ UNCHANGED exc
    /\ UNCHANGED <<call, layers, losses, epoch, total_loss, locals, stdout,
                   batch_steps, epoch_steps, backward_calls, W_at_forward, updates>>

\* One iteration of batch_generator's loop: the next batch is yielded to
\* train's batch loop.
GeneratorYield ==
    /\ pc = "gen_next" /\ RangeHas(n, batch_size, gi)
    /\ \E batch_idx \in {BatchIdx(indices, gi, batch_size)} :
           /\ batch_x' = BatchX(train_x, batch_idx)
           /\ batch_y' = BatchY(train_y, batch_idx)
           /\ yielded' = Append(yielded, [idx |-> batch_idx,
                                          x |-> batch_x', y |-> batch_y'])
    /\ gi' = gi + batch_size
    /\ pc' = "forward"
    /\ updates' = Tup([k \in 1..Len(layers) |-> 0])
    /\ UNCHANGED <<call, exc, layers, losses, epoch, total_loss, indices,
                   y_pred, dL_dA, bi, dl_dw_all, dl_db_all, dL_dW, dL_db, ui,
                   stdout, batch_steps, epoch_steps, backward_calls, W_at_forward>>

\* The generator is exhausted: train's batch loop ends.
GeneratorStop ==
    /\ pc = "gen_next" /\ ~RangeHas(n, batch_size, gi)
    /\ pc' = "epoch_loss"
    /\ UNCHANGED <<call, exc, layers, losses, epoch, total_loss, indices, gi, locals,
                   stdout, history>>

\* y_pred = self.forward(batch_x, training=True)
BatchForward ==
    /\ pc = "forward"
    /\ \E keeps \in ForwardDraws(layers, batch_x.r, TRUE) :
         \E f \in {Forward(layers, batch_x, TRUE, keeps)} :
             /\ layers' = f.layers
             /\ IF f.ok THEN y_pred' = f.out /\ pc' = "loss" /\ UNCHANGED exc
                ELSE Raise("ValueError") /\ UNCHANGED y_pred
    /\ W_at_forward' = Tup([k \in 1..Len(layers) |-> layers[k].W])
    /\ UNCHANGED <<call, losses, epoch, total_loss, indices, gi,
                   batch_x, batch_y, dL_dA, bi, dl_dw_all, dl_db_all, dL_dW, dL_db, ui,
                   stdout, yielded, batch_steps, epoch_steps, backward_calls, updates>>

\* batchloss = loss_func.loss(batch_y, y_pred), its mean, total_loss
BatchLoss ==
    /\ pc = "loss"
    /\ total_loss' = FracAdd(total_loss, MeanLoss(SquaredErrorLoss(batch_y, y_pred)))
    /\ pc' = "derivative"
    /\ UNCHANGED <<call, exc, layers, losses, epoch, indices, gi, locals, stdout,
                   history>>

\* loss_func.derivative(batch_y[:len(y_pred)], y_pred), and the entry into
\* self.backward
LossDerivative ==
    /\ pc = "derivative"
    /\ dL_dA' = SquaredErrorDerivative(FirstRows(batch_y, y_pred.r), y_pred)
    /\ dl_dw_all' = <<>> /\ dl_db_all' = <<>>
    /\ bi' = Len(layers)
    /\ backward_calls' = <<>>
    /\ pc' = "backward"
    /\ UNCHANGED <<call, exc, layers, losses, epoch, total_loss, indices, gi,
                   batch_x, batch_y, y_pred, dL_dW, dL_db, ui, stdout,
                   yielded, batch_steps, epoch_steps, W_at_forward, updates>>

\* One iteration of MultilayerPerceptron.backward's loop, layer i = bi
\* (layers are numbered from 1 here, from 0 in the source).
BackwardLayer ==
    /\ pc = "backward" /\ bi >= 1
    /\ \E h \in {IF bi = 1 THEN batch_x ELSE layers[bi - 1].activations} :
         \E g \in {LayerBackward(layers[bi], h, dL_dA)} :
           /\ layers' = [layers EXCEPT ![bi] = g.layer]
           /\ dl_dw_all' = Append(dl_dw_all, g.dL_dW)
           /\ dl_db_all' = Append(dl_db_all, g.dL_db)
           /\ dL_dA' = g.layer.delta
           /\ backward_calls' = Append(backward_calls,
                  [i |-> bi, h |-> h, delta |-> dL_dA, dZ |-> g.dZ,
                   dL_dW |-> g.dL_dW, dL_db |-> g.dL_db, stored |-> g.layer.delta])
    /\ bi' = bi - 1
    /\ UNCHANGED <<call, pc, exc, losses, epoch, total_loss, indices, gi,
                   batch_x, batch_y, y_pred, dL_dW, dL_db, ui, stdout,
                   yielded, batch_steps, epoch_steps, W_at_forward, updates>>

\* The end of MultilayerPerceptron.backward: the lists are reversed and
\* returned to train.
BackwardReturn ==
    /\ pc = "backward" /\ bi < 1
    /\ dL_dW' = Reverse(dl_dw_all)
    /\ dL_db' = Reverse(dl_db_all)
    /\ dl_dw_all' = <<>> /\ dl_db_all' = <<>>
    /\ ui' = 1
    /\ pc' = "update"
    /\ UNCHANGED <<call, exc, layers, losses, epoch, total_loss, indices, gi,
                   batch_x, batch_y, y_pred, dL_dA, bi, stdout, history>>

\* One iteration of train's update loop, layer i = ui; after the last one
\* the batch step is over and its locals are out of use.
UpdateParameters ==
    /\ pc = "update" /\ ui <= Len(layers)
    /\ layers' = [layers EXCEPT ![ui] =
           UpdateLayer(layers[ui], dL_dW[ui], Squeeze(dL_db[ui]),
                       call.train.learning_rate, call.train.RMSProp)]
    /\ updates' = [updates EXCEPT ![ui] = @ + 1]
    /\ IF ui < Len(layers)
       THEN /\ ui' = ui + 1
            /\ UNCHANGED <<pc, batch_x, batch_y, y_pred, dL_dA, bi, dl_dw_all,
                           dl_db_all, dL_dW, dL_db, batch_steps, epoch_steps,
                           backward_calls, W_at_forward>>
       ELSE /\ pc' = "gen_next"
            /\ batch_steps' = batch_steps + 1
            /\ epoch_steps' = epoch_steps + 1
            /\ backward_calls' = <<>>
            /\ W_at_forward' = <<>>
            /\ ClearLocals
    /\ UNCHANGED <<call, exc, losses, epoch, total_loss, indices, gi, stdout, yielded>>

\* num_batches = len(train_x) / batch_size;
\* training_losses.append(total_loss / num_batches)
EpochLoss ==
    /\ pc = "epoch_loss"
    /\ \E num_batches \in {NumBatches(n, batch_size)} :
         training_losses' = ListAppend(training_losses, FracDiv(total_loss, num_batches))
    /\ indices' = <<>> /\ gi' = 0 /\ yielded' = <<>>
    /\ pc' = "validation"
    /\ UNCHANGED <<call, exc, layers, validation_losses, epoch, total_loss, locals,
                   stdout, batch_steps, epoch_steps, backward_calls, W_at_forward,
                   updates>>

\* val_output = self.forward(val_x, training=False), val_loss and
\* validation_losses.append
Validation ==
    /\ pc = "validation"
    /\ \E keeps \in ForwardDraws(layers, ValX.r, FALSE) :
         \E f \in {Forward(layers, ValX, FALSE, keeps)} :
             /\ layers' = f.layers
             /\ validation_losses' =
                    ListAppend(validation_losses, MeanLoss(SquaredErrorLoss(ValY, f.out)))
    /\ pc' = "metrics"
    /\ UNCHANGED <<call, exc, training_losses, epoch, total_loss, indices, gi, locals,
                   stdout, history>>

\* The metric passes of the epoch and its progress line:
\* compute_accuracy or compute_regression_metrics over the training set,
\* then over the validation set.
EpochMetrics ==
    /\ pc = "metrics"
    /\ \E kt \in ForwardDraws(layers, train_x.r, ForwardDefaultTraining) :
         \E ft \in {Forward(layers, train_x, ForwardDefaultTraining, kt)} :
             \E kv \in ForwardDraws(ft.layers, ValX.r, ForwardDefaultTraining) :
               \E fv \in {Forward(ft.layers, ValX, ForwardDefaultTraining, kv)} :
                   /\ layers' = fv.layers
                   /\ stdout' =
                        IF call.train.model_type = "classification"
                        THEN <<Accuracy(ft.out, train_y), Accuracy(fv.out, ValY)>>
                        ELSE <<RegressionMetrics(ft.out, train_y),
                               RegressionMetrics(fv.out, ValY)>>
    /\ epoch' = epoch + 1
    /\ pc' = "epoch"
    /\ UNCHANGED <<call, exc, losses, total_loss, indices, gi, locals, history>>

Next ==
    \/ ConstructLayer
    \/ ConstructNetwork
    \/ TrainBegin
    \/ EpochBegin
    \/ TrainReturn
    \/ GeneratorStart
    \/ GeneratorYield
    \/ GeneratorStop
    \/ BatchForward
    \/ BatchLoss
    \/ LossDerivative
    \/ BackwardLayer
    \/ BackwardReturn
    \/ UpdateParameters
    \/ EpochLoss
    \/ Validation
    \/ EpochMetrics

Spec == Init /\ [][Next]_vars

FairSpec == Spec /\ WF_vars(Next)

\* ======================================================== verification
CeilDiv(x, y) == (x + y - 1) \div y

RECURSIVE Concat(_)
Concat(ss) == IF ss = <<>> THEN <<>> ELSE Head(ss) \o Concat(Tail(ss))

AllOnes(M) == ~IsNone(M) /\ M = OnesLike(M)

IsPrefix(s, t) == Len(s) <= Len(t) /\ \A k \in 1..Len(s) : s[k] = t[k]

InBatchStep == pc \in {"forward", "loss", "derivative", "backward", "update"}

BatchIterating == InBatchStep \/ pc \in {"gen_start", "gen_next"}

InEpochMetrics == pc \in {"epoch_loss", "validation", "metrics"}

\* ---------------------------------------------------------------- C1
\* C1: for n >= 1 and batch_size >= 1, the batches one run of
\* batch_generator yields never repeat an index, every batch before the last
\* has batch_size rows, batch_x and batch_y hold the rows of train_x and
\* train_y at the batch's indices, and when the generator is exhausted the
\* batches number ceil(n / batch_size), cover 0..n-1 exactly once, and the
\* last has n - batch_size * (ceil(n / batch_size) - 1) rows.
C1_BatchesPartition ==
    (batch_size >= 1 /\ pc \notin {"construct", "idle"}) =>
        LET all == Concat([k \in 1..Len(yielded) |-> yielded[k].idx])
            nb  == CeilDiv(n, batch_size)
        IN  /\ \A i, j \in 1..Len(all) : i # j => all[i] # all[j]
            /\ \A k \in 1..Len(yielded) :
                 /\ k < nb => Len(yielded[k].idx) = batch_size
                 /\ k = nb => Len(yielded[k].idx) = n - batch_size * (nb - 1)
                 /\ yielded[k].x.r = Len(yielded[k].idx)
                 /\ yielded[k].y.r = Len(yielded[k].idx)
                 /\ \A r \in 1..Len(yielded[k].idx) :
                      /\ yielded[k].x.a[r] = train_x.a[yielded[k].idx[r] + 1]
                      /\ yielded[k].y.a[r] = train_y.a[yielded[k].idx[r] + 1]
            /\ Len(yielded) <= nb
            /\ pc = "epoch_loss" =>
                 /\ Len(yielded) = nb
                 /\ {all[i] : i \in 1..Len(all)} = 0..(n - 1)
                 /\ Len(all) = n

C1_Witness ==
    /\ pc = "epoch_loss" /\ n = 3 /\ batch_size = 2
    /\ Len(yielded) = 2 /\ Len(yielded[1].idx) = 2 /\ Len(yielded[2].idx) = 1
    /\ yielded[1].idx[1] = 2

\* ---------------------------------------------------------------- C2
C2_Lengths ==
    (epochs >= 1) =>
        /\ pc = "done" => Len(training_losses) = epochs /\ Len(validation_losses) = epochs
        /\ pc = "epoch" => Len(training_losses) = epoch /\ Len(validation_losses) = epoch
        /\ pc = "metrics" =>
             Len(training_losses) = epoch + 1 /\ Len(validation_losses) = epoch + 1

C2_Append ==
    /\ IsPrefix(training_losses, training_losses')
    /\ IsPrefix(validation_losses, validation_losses')
    /\ Len(training_losses') <= Len(training_losses) + 1
    /\ Len(validation_losses') <= Len(validation_losses) + 1
    /\ epoch' # epoch =>
         /\ epoch' = epoch + 1
         /\ Len(training_losses') = epoch' /\ Len(validation_losses') = epoch'

\* C2: a train call with epochs = E >= 1 that completes returns two lists
\* of length E; at the end of epoch k both have length k; every step leaves
\* the entries already there in place and appends at most one.
C2_OneLossPerEpoch == [](C2_Lengths) /\ [][C2_Append]_vars

C2_Witness ==
    /\ pc = "done" /\ epochs = 2
    /\ Len(training_losses) = 2 /\ Len(validation_losses) = 2
    /\ training_losses[1] # training_losses[2]

\* ---------------------------------------------------------------- C3
\* C3: a call with a non-positive batch_size or epochs, or a Layer with a
\* non-positive fan_in or fan_out or a dropout_rate outside [0, 1), ends in
\* an error at construction or at the first offending call: no such Layer
\* is ever constructed, train never returns, and no W or b is updated.
C3_InvalidRejected ==
    /\ \A k \in 1..Len(layers) : ValidLayerArgs(call.net[k])
    /\ ~ValidTrainArgs(call.train) =>
         pc # "done" /\ batch_steps = 0 /\ \A k \in 1..Len(updates) : updates[k] = 0

\* ---------------------------------------------------------------- C4
\* The inputs layer k can be given in the current state: the training set,
\* the validation set and the current batch for the first layer, the cached
\* activations of the layer before it for the others.
InputsOf(k) ==
    IF k = 1
    THEN {train_x, ValX} \cup (IF IsNone(batch_x) THEN {} ELSE {batch_x})
    ELSE IF IsNone(layers[k - 1].activations) THEN {}
         ELSE {layers[k - 1].activations}

\* C4: for a Layer with dropout_rate = 0 and any input x, forward(x,
\* training=True) and forward(x, training=False) return the same output and
\* leave the same cached activations and an all-ones dropout mask, whatever
\* the random draw.
C4_NoDropoutSameForward ==
    \A k \in 1..Len(layers) :
        layers[k].dropout_rate = 0 =>
            \A x \in InputsOf(k) :
                Aligned(x, layers[k].W) =>
                    \A f \in {LayerForward(layers[k], x, FALSE, Zeros(0, 0))} :
                        /\ AllOnes(f.dropout_mask)
                        /\ f.activations = ActForward(layers[k].activation_function,
                                                      AddBias(Dot(x, layers[k].W),
                                                              layers[k].b))
                        /\ \A keep \in KeepDraws(x.r, layers[k].fan_out) :
                               LayerForward(layers[k], x, TRUE, keep) = f

C4_Witness ==
    /\ pc = "metrics" /\ Len(layers) = 2
    /\ layers[1].dropout_rate = 50 /\ layers[2].dropout_rate = 0
    /\ layers[2].activations.r = 2
    /\ layers[2].activations.a[1][1] # 0
    /\ AllOnes(layers[2].dropout_mask)
    /\ LayerForward(layers[2], layers[1].activations, TRUE, Zeros(2, 1)) = layers[2]

\* ---------------------------------------------------------------- C5
Phase(p, e) ==
    IF p \in {"construct", "idle"} \/ (p = "epoch" /\ e = 0) THEN "Idle"
    ELSE IF p \in {"gen_start", "gen_next", "forward", "loss", "derivative",
                   "backward", "update"} THEN "BatchIterating"
    ELSE IF p \in {"epoch_loss", "validation", "metrics", "epoch"} THEN "EpochMetrics"
    ELSE IF p = "done" THEN "Done"
    ELSE "Error"

PhaseOrder ==
    {<<"Idle", "Idle">>, <<"Idle", "BatchIterating">>,
     <<"BatchIterating", "BatchIterating">>, <<"BatchIterating", "EpochMetrics">>,
     <<"EpochMetrics", "EpochMetrics">>, <<"EpochMetrics", "BatchIterating">>,
     <<"EpochMetrics", "Done">>}

C5_Step ==
    ValidCall(call) =>
        /\ <<Phase(pc, epoch), Phase(pc', epoch')>> \in PhaseOrder
        /\ pc = "epoch_loss" => pc' = "validation"
        /\ pc = "validation" => pc' = "metrics"
        /\ pc = "metrics" => pc' = "epoch" /\ epoch' = epoch + 1
        /\ pc' = "epoch_loss" => pc = "gen_next"
        /\ Len(training_losses') > Len(training_losses) => pc = "epoch_loss"
        /\ Len(validation_losses') > Len(validation_losses) => pc = "validation"
        /\ batch_steps' >= batch_steps /\ batch_steps' <= batch_steps + 1

C5_Inv ==
    ValidCall(call) =>
        LET nb == CeilDiv(n, batch_size)
        IN  /\ BatchIterating =>
                 /\ Len(training_losses) = epoch /\ Len(validation_losses) = epoch
                 /\ epoch < epochs
                 /\ batch_steps = epoch * nb + epoch_steps
                 /\ epoch_steps <= nb
                 /\ InBatchStep => epoch_steps < nb
            /\ InEpochMetrics =>
                 /\ epoch_steps = nb /\ batch_steps = (epoch + 1) * nb
                 /\ Len(training_losses) = (IF pc = "epoch_loss" THEN epoch ELSE epoch + 1)
                 /\ Len(validation_losses) = (IF pc = "metrics" THEN epoch + 1 ELSE epoch)
            /\ pc = "epoch" =>
                 /\ batch_steps = epoch * nb
                 /\ Len(training_losses) = epoch /\ Len(validation_losses) = epoch
            /\ pc = "done" => epoch = epochs /\ batch_steps = epochs * nb
            /\ pc # "error"

\* C5: the loop goes Idle, then per epoch BatchIterating and EpochMetrics,
\* then Done: all batches of an epoch come before its training loss, that
\* before the validation pass and loss, these before the epoch's metrics,
\* and no batch of the next epoch before them; with batch_size >= 1 and
\* epochs >= 1 the loop reaches Done, after epochs * ceil(n / batch_size)
\* batch steps.
C5_PhaseOrderAndTermination ==
    /\ [](C5_Inv)
    /\ [][C5_Step]_vars
    /\ (pc = "idle" /\ ValidCall(call)) ~>
           (pc = "done" /\ ValidCall(call) /\ batch_steps = epochs * CeilDiv(n, batch_size))

C5_Witness ==
    /\ pc = "done" /\ epochs = 2 /\ n = 3 /\ batch_size = 2 /\ batch_steps = 4

\* ---------------------------------------------------------------- C6
BatchStepOrder ==
    {<<"forward", "loss">>, <<"loss", "derivative">>, <<"derivative", "backward">>,
     <<"backward", "backward">>, <<"backward", "update">>, <<"update", "update">>,
     <<"update", "gen_next">>}

ParametersOf(ls) == [k \in 1..Len(ls) |-> <<ls[k].W, ls[k].b>>]

C6_Step ==
    /\ (InBatchStep /\ pc' # "error") => <<pc, pc'>> \in BatchStepOrder
    /\ pc' = "forward" => pc = "gen_next"
    /\ (pc # "construct" /\ ParametersOf(layers') # ParametersOf(layers)) =>
         /\ pc = "update"
         /\ Len(backward_calls) = Len(layers)
         /\ Len(dL_dW) = Len(layers) /\ Len(dL_db) = Len(layers)
         /\ \A k \in 1..Len(layers) :
              <<layers'[k].W, layers'[k].b>> # <<layers[k].W, layers[k].b>> => k = ui
    /\ pc = "update" =>
         /\ updates' = [updates EXCEPT ![ui] = 1]
         /\ updates[ui] = 0
         /\ pc' = "gen_next" => \A k \in 1..Len(layers) : updates'[k] = 1
    /\ pc # "update" => (pc' = "forward" \/ updates' = updates)

C6_Inv ==
    /\ \A c \in 1..Len(backward_calls) :
         LET e == backward_calls[c]
         IN  /\ e.stored = Dot(e.dZ, Transpose(W_at_forward[e.i]))
             /\ layers[e.i].delta = e.stored
    /\ pc \in {"loss", "derivative", "backward"} =>
         \A k \in 1..Len(layers) :
             /\ layers[k].W = W_at_forward[k]
             /\ layers[k].dropout_rate = 50 =>
                  \A r \in 1..batch_x.r : layers[k].dropout_mask.a[r][1] \in {0, 2}
    /\ pc = "update" =>
         \A k \in 1..Len(layers) :
             /\ updates[k] = (IF k < ui THEN 1 ELSE 0)
             /\ k >= ui => layers[k].W = W_at_forward[k]

\* C6: a batch step runs forward (training mode), batch loss, loss
\* derivative, network backward, parameter update, in this order; every
\* layer's gradients and delta = dZ . W^T are computed, with the weights of
\* the forward pass, before any W or b changes; then every layer's W and b
\* is updated exactly once; no other step changes a W or b.
C6_GradientsBeforeUpdates == [](C6_Inv) /\ [][C6_Step]_vars

C6_Witness ==
    /\ pc = "update" /\ ui = 2 /\ Len(layers) = 2
    /\ layers[1].W # W_at_forward[1] /\ layers[2].W = W_at_forward[2]
    /\ layers[1].delta # Zeros(layers[1].delta.r, layers[1].delta.c)

\* ---------------------------------------------------------------- C7
\* C7: for L >= 1 layers, one backward pass calls Layer.backward once per
\* layer, last layer first; layer i is given the network input when it is
\* the first layer and the cached activations of the layer before it
\* otherwise; the last layer is given the loss gradient and every other
\* layer the delta the layer after it stored in this pass; the two lists
\* returned have length L and their entry i is the gradient layer i
\* computed.
C7_BackwardOrder ==
    pc \in {"backward", "update"} =>
        LET L == Len(layers)
        IN  /\ L >= 1
            /\ Len(backward_calls) = (IF pc = "backward" THEN L - bi ELSE L)
            /\ \A c \in 1..Len(backward_calls) :
                 LET e == backward_calls[c]
                 IN  /\ e.i = L + 1 - c
                     /\ e.h = (IF e.i = 1 THEN batch_x ELSE layers[e.i - 1].activations)
                     /\ e.delta = (IF c = 1
                                   THEN SquaredErrorDerivative(batch_y, y_pred)
                                   ELSE backward_calls[c - 1].stored)
                     /\ e.stored = layers[e.i].delta
                     /\ e.dL_dW.r = layers[e.i].W.r /\ e.dL_dW.c = layers[e.i].W.c
            /\ pc = "backward" =>
                 /\ Len(dl_dw_all) = Len(backward_calls)
                 /\ Len(dl_db_all) = Len(backward_calls)
            /\ pc = "update" =>
                 /\ Len(dL_dW) = L /\ Len(dL_db) = L
                 /\ \A k \in 1..L :
                      \E c \in 1..L :
                          /\ backward_calls[c].i = k
                          /\ dL_dW[k] = backward_calls[c].dL_dW
                          /\ dL_db[k] = backward_calls[c].dL_db

C7_Witness ==
    /\ pc = "update" /\ Len(layers) = 2 /\ Len(backward_calls) = 2
    /\ backward_calls[1].i = 2 /\ backward_calls[2].i = 1
    /\ dL_dW[1] # dL_dW[2]
    /\ backward_calls[2].h = batch_x
    /\ backward_calls[2].delta # Zeros(batch_x.r, 1)

\* ---------------------------------------------------------------- C8
\* What holds of the loss recorded for the epoch in every case: it is
\* total_loss over the exact quotient n / batch_size, total_loss changes
\* only by a batch loss, and the batches iterated number ceil(n / batch_size).
C8_Recorded(recorded) ==
    /\ recorded.num * n * total_loss.den = total_loss.num * batch_size * recorded.den
    /\ epoch_steps = CeilDiv(n, batch_size)
    /\ total_loss.num >= 0
    /\ n % batch_size = 0 <=> n = epoch_steps * batch_size
    /\ n % batch_size = 0 => recorded = FracDiv(total_loss, Frac(epoch_steps, 1))
    /\ n % batch_size # 0 => n < epoch_steps * batch_size

\* C8 as stated: the loss recorded for an epoch is total_loss divided by
\* the exact quotient n / batch_size; the divisor is the number of batches
\* iterated exactly when batch_size divides n, and is smaller otherwise, and
\* the recorded value is then larger than the mean of the batch losses.
C8_RecordedLargerThanMean ==
    (pc = "validation" /\ batch_size >= 1) =>
        LET recorded == training_losses[Len(training_losses)]
            mean     == FracDiv(total_loss, Frac(epoch_steps, 1))
        IN  /\ C8_Recorded(recorded)
            /\ n % batch_size # 0 => FracLess(mean, recorded)

\* C8 amended: as stated, but when batch_size does not divide n the
\* recorded value is larger than the mean of the batch losses if the
\* epoch's total loss is positive, and equal to it (both are zero) if the
\* total loss is zero.
C8_RecordedLargerUnlessZero ==
    (pc = "validation" /\ batch_size >= 1) =>
        LET recorded == training_losses[Len(training_losses)]
            mean     == FracDiv(total_loss, Frac(epoch_steps, 1))
        IN  /\ C8_Recorded(recorded)
            /\ (n % batch_size # 0 /\ total_loss.num > 0) => FracLess(mean, recorded)
            /\ (n % batch_size # 0 /\ total_loss.num = 0) =>
                   recorded = mean /\ recorded = Frac(0, 1)

C8_Witness ==
    /\ pc = "validation" /\ n = 3 /\ batch_size = 2 /\ epoch_steps = 2
    /\ total_loss.num > 0
    /\ training_losses[Len(training_losses)] = FracDiv(total_loss, Frac(3, 2))
    /\ FracLess(FracDiv(total_loss, Frac(2, 1)), training_losses[Len(training_losses)])

\* ---------------------------------------------------------------- C9
\* C9: every forward pass of the EpochMetrics phase runs with dropout
\* disabled: after the validation pass and after the metric passes over
\* train_x and val_x, every layer's cached dropout mask is all ones, also
\* for a layer with dropout_rate > 0.
C9_MetricsWithoutDropout ==
    (pc = "metrics" \/ (pc \in {"epoch", "done"} /\ epoch >= 1)) =>
        \A k \in 1..Len(layers) : AllOnes(layers[k].dropout_mask)

\* --------------------------------------------------------------- C10
\* C10: in every batch of every epoch, a short final batch included, y_pred
\* has as many rows as batch_y (and as batch_x), so batch_y[:len(y_pred)]
\* is batch_y, and the loss and its derivative are over the same rows.
C10_TruncationKeepsRows ==
    pc \in {"loss", "derivative", "backward", "update"} =>
        /\ y_pred.r = batch_y.r /\ batch_x.r = batch_y.r
        /\ FirstRows(batch_y, y_pred.r) = batch_y
        /\ Len(SquaredErrorLoss(batch_y, y_pred)) = batch_y.r
        /\ pc = "backward" /\ bi = Len(layers) => dL_dA.r = batch_y.r
        /\ Len(backward_calls) >= 1 => backward_calls[1].delta.r = batch_y.r

C10_Witness ==
    /\ pc = "backward" /\ bi = Len(layers)
    /\ n = 3 /\ batch_size = 2 /\ gi = 4
    /\ batch_y.r = 1 /\ y_pred.r = 1 /\ dL_dA.r = 1

====
